---- MODULE Spec2Model ----
(***************************************************************************)
(* floatty: a supervisor that forks a target program onto a fresh          *)
(* pseudo-terminal and relays the controller side to its standard output.  *)
(* The model starts in main once both sides of the pty are open, and after *)
(* the fork follows both processes:                                        *)
(* the child arm (child_process) and the parent arm (parent_process,       *)
(* parent_loop, Poller::with_sources, Poller::each_with, Poller::cleanup). *)
(* The operating system is modelled as far as the code depends on it: the  *)
(* signal mask and pending set of the supervisor, signalfd, the one-shot   *)
(* readiness facility of the polling crate, waitpid, and the pty queue.    *)
(* MainSpec runs the same program from the opening of the pty on;          *)
(* DrainSpec, PollerSpec and ErrnoSpec study read_until_block, the Poller  *)
(* and the errno conversions of the error enumerations on their own.       *)
(***************************************************************************)
EXTENDS Integers, Sequences, FiniteSets, TLC

\* Bounds of the model.
MaxChildBytes == 2
MaxWinch == 1
MaxStops == 1
MaxDrainLen == 4

\* poller.rs: the scratch buffer of read_until_block.
BUFFER_SIZE == 4096

\* Byte values the target program may write to its terminal.
Bytes == {0, 1}

\* Geometries of the invoking terminal.
Geoms == {"80x24", "132x43"}

\* The geometry the invoking terminal has when main starts; a resize before
\* getwinsz gives main the other one to read.
StartGeom == "80x24"

\* Exit codes the target program may exit with.
ExitCodes == {0, 7}

\* The three sources of the supervisor, by the file they poll.
Src == {"sigchld", "sigwinch", "pty"}

\* parent.rs:85, the order the sources are handed to with_sources.
SourceOrder == <<"sigchld", "sigwinch", "pty">>

\* The signal a signalfd source was created for (parent.rs:71,76).
SigOf(src) == IF src = "sigchld" THEN "SIGCHLD" ELSE "SIGWINCH"

\* The payload of one read of a signalfd: one signalfd_siginfo record,
\* written here as a single token outside the byte range.
SiginfoData == <<-1>>

\* `signal as i32` for the signals of the model.
SigNum(sig) ==
    CASE sig = "SIGHUP" -> 1
      [] sig = "SIGKILL" -> 9
      [] sig = "SIGSTOP" -> 19
      [] OTHER -> 0

Range(s) == {s[i] : i \in 1..Len(s)}

Min(a, b) == IF a < b THEN a ELSE b

\* All orders of a finite set, as sequences without repetition.
Perms(S) ==
    {f \in [1..Cardinality(S) -> S] : \A i, j \in 1..Cardinality(S) : i # j => f[i] # f[j]}

Take(s, n) == SubSeq(s, 1, n)
Drop(s, n) == SubSeq(s, n + 1, Len(s))

VARIABLES
    \* ---- the supervisor (parent arm) ----
    ppc,          \* position of the parent in main / parent_process / parent_loop
    sigmask,      \* signals blocked in the supervisor's process mask
    sigpending,   \* blocked signals pending for the supervisor
    chldCode,     \* si_code of the pending SIGCHLD
    popen,        \* handles open in the supervisor
    fds,          \* with_sources: fds, then Poller.sources
    registered,   \* sources registered with the readiness facility
    interest,     \* per source, the interest registered for it
    armed,        \* registered sources whose one-shot interest is active
    deregs,       \* per source, the number of deregistrations performed
    events,       \* each_with: the events of the current batch still to handle
    evflags,      \* per source, the readiness flags of its event in the batch
    data,         \* each_with: the bytes drained so far from the current source
    dataCode,     \* the si_code carried by the drained siginfo, if any
    drainEnd,     \* how the drain of the current source ended
    result,       \* parent_process: the result of parent_loop
    waitpidCalls, \* number of waitpid calls made by parent_process
    wstatus,      \* the status waitpid returned
    diag,         \* the diagnostic parent_process printed on stderr
    ret,          \* what parent_process returned
    exitCode,     \* the exit code of the supervisor process
    stdout,       \* bytes written to the supervisor's standard output
    \* ---- the child ----
    cpc,          \* position of the child in main / child_process / the target
    copen,        \* pty handles open in the child
    hasCtty,      \* the subordinate pty is the child's controlling terminal
    cdup,         \* number of standard streams bound to the subordinate pty
    cstatus,      \* termination status of the child
    cwrote,       \* every byte the target wrote to the subordinate pty
    cerr,         \* the error child_process returned, if it returned
    \* ---- the environment ----
    ptybuf,       \* bytes written to the subordinate side, not yet read
    winch,        \* number of SIGWINCH raised so far
    stops,        \* number of times the target was stopped
    osFault,      \* some system call of the supervisor has failed
    termWinsz,    \* the geometry of the invoking terminal
    currentSize,  \* main: the geometry getwinsz returned
    ptyWinsz,     \* the geometry of the controller pty
    \* ---- what the properties refer to ----
    given,        \* the sources handed to Poller::with_sources, in order
    setup,        \* per source, the interest of its PollInterest
    nonblock,     \* the handles of the supervisor that are in nonblocking mode
    conv,         \* an errno conversion: the enumeration, the code, the results
    ptyRead       \* every byte the supervisor has read from the controller pty

vars == <<ppc, sigmask, sigpending, chldCode, popen, fds, registered, interest, armed,
          deregs, events, evflags, data, dataCode, drainEnd, result, waitpidCalls,
          wstatus, diag, ret, exitCode, stdout, cpc, copen, hasCtty, cdup, cstatus,
          cwrote, cerr, ptybuf, winch, stops, osFault, termWinsz, currentSize, ptyWinsz,
          given, setup, nonblock, conv, ptyRead>>

parentVars == <<ppc, sigmask, popen, fds, registered, interest, armed, deregs, events,
                evflags, data, dataCode, drainEnd, result, waitpidCalls, wstatus, diag,
                ret, exitCode, stdout, osFault>>
pollVars == <<fds, registered, interest, armed, deregs, events, evflags, data, dataCode,
              drainEnd>>
inputVars == <<given, setup, conv>>
reportVars == <<wstatus, diag, ret, exitCode>>
childVars == <<cpc, copen, hasCtty, cdup, cstatus, cwrote, cerr>>
geomVars == <<termWinsz, currentSize, ptyWinsz>>

\* ------------------------------------------------------------------------
\* The error enumerations of the fallible calls: pty/openpt_error.rs,
\* pty/unlockpt_error.rs, pty/ptsname_error.rs, pty/csctty_error.rs and
\* parent/signalfd_error.rs.

ErrTypes == {"Openpt", "Unlockpt", "Ptsname", "Csctty", "Signalfd"}

\* The error codes (nix::errno::Errno) the conversions are studied on: every
\* code one of the enumerations names, and some that none names.
Errnos == {"EPERM", "ENOENT", "EIO", "EBADF", "EAGAIN", "ENOMEM", "EACCES", "ENODEV",
           "EINVAL", "ENFILE", "EMFILE", "ENOTTY", "ENOSR", "ENOSPC"}

\* The variants of each enumeration.
Variants(t) ==
    CASE t = "Openpt" -> {"ExhaustedFileDescriptors", "ExhaustedFiles", "ExhaustedPtys",
                          "ExhaustedStreams"}
      [] t = "Unlockpt" -> {"NotAPty"}
      [] t = "Ptsname" -> {"NotAPty"}
      [] t = "Csctty" -> {"PermissionDenied"}
      [] t = "Signalfd" -> {"InvalidFlags", "ExhaustedFileDescriptors", "ExhaustedFiles",
                            "FailedToMountInode", "ExhaustedMemory"}

\* The codes the match of each try_from_raw names with a variant.
ListedCodes(t) ==
    CASE t = "Openpt" -> {"EMFILE", "ENFILE", "EAGAIN", "ENOSR"}
      [] t = "Unlockpt" -> {"EINVAL"}
      [] t = "Ptsname" -> {"EINVAL"}
      [] t = "Csctty" -> {"EPERM"}
      [] t = "Signalfd" -> {"EINVAL", "EMFILE", "ENFILE", "ENODEV", "ENOMEM"}

\* openpt_error.rs:34-54.  EINVAL is unreachable!(): try_from_raw itself
\* panics on it.
OpenptTryFromRaw(raw) ==
    CASE raw = "EMFILE" -> "ExhaustedFileDescriptors"
      [] raw = "ENFILE" -> "ExhaustedFiles"
      [] raw = "EAGAIN" -> "ExhaustedPtys"
      [] raw = "ENOSR" -> "ExhaustedStreams"
      [] raw = "EINVAL" -> "panic"
      [] OTHER -> "None"

\* openpt_error.rs:66-76.
OpenptToErrno(v) ==
    CASE v = "ExhaustedFileDescriptors" -> "EMFILE"
      [] v = "ExhaustedFiles" -> "ENFILE"
      [] v = "ExhaustedPtys" -> "EAGAIN"
      [] v = "ExhaustedStreams" -> "ENOSR"

\* openpt_error.rs:78-88.
OpenptAsErrno(v) ==
    CASE v = "ExhaustedFileDescriptors" -> "EMFILE"
      [] v = "ExhaustedFiles" -> "ENFILE"
      [] v = "ExhaustedPtys" -> "EAGAIN"
      [] v = "ExhaustedStreams" -> "ENOSR"

\* unlockpt_error.rs:25-37.
UnlockptTryFromRaw(raw) ==
    CASE raw = "EINVAL" -> "NotAPty"
      [] OTHER -> "None"

\* unlockpt_error.rs:49-56.
UnlockptToErrno(v) ==
    CASE v = "NotAPty" -> "EINVAL"

\* unlockpt_error.rs:58-65.
UnlockptAsErrno(v) ==
    CASE v = "NotAPty" -> "EINVAL"

\* ptsname_error.rs:28-40.
PtsnameTryFromRaw(raw) ==
    CASE raw = "EINVAL" -> "NotAPty"
      [] OTHER -> "None"

\* ptsname_error.rs:52-59.
PtsnameToErrno(v) ==
    CASE v = "NotAPty" -> "ENOTTY"

\* ptsname_error.rs:61-68.
PtsnameAsErrno(v) ==
    CASE v = "NotAPty" -> "ENOTTY"

\* csctty_error.rs:25-37.
CscttyTryFromRaw(raw) ==
    CASE raw = "EPERM" -> "PermissionDenied"
      [] OTHER -> "None"

\* csctty_error.rs:49-56.
CscttyToErrno(v) ==
    CASE v = "PermissionDenied" -> "EPERM"

\* csctty_error.rs:58-65.
CscttyAsErrno(v) ==
    CASE v = "PermissionDenied" -> "EPERM"

\* signalfd_error.rs:33-49.
SignalfdTryFromRaw(raw) ==
    CASE raw = "EINVAL" -> "InvalidFlags"
      [] raw = "EMFILE" -> "ExhaustedFileDescriptors"
      [] raw = "ENFILE" -> "ExhaustedFiles"
      [] raw = "ENODEV" -> "FailedToMountInode"
      [] raw = "ENOMEM" -> "ExhaustedMemory"
      [] OTHER -> "None"

\* signalfd_error.rs:61-72.
SignalfdToErrno(v) ==
    CASE v = "InvalidFlags" -> "EINVAL"
      [] v = "ExhaustedFileDescriptors" -> "EMFILE"
      [] v = "ExhaustedFiles" -> "ENFILE"
      [] v = "FailedToMountInode" -> "ENODEV"
      [] v = "ExhaustedMemory" -> "ENOMEM"

\* signalfd_error.rs:74-85.
SignalfdAsErrno(v) ==
    CASE v = "InvalidFlags" -> "EINVAL"
      [] v = "ExhaustedFileDescriptors" -> "EMFILE"
      [] v = "ExhaustedFiles" -> "ENFILE"
      [] v = "FailedToMountInode" -> "ENODEV"
      [] v = "ExhaustedMemory" -> "ENOMEM"

TryFromRaw(t, raw) ==
    CASE t = "Openpt" -> OpenptTryFromRaw(raw)
      [] t = "Unlockpt" -> UnlockptTryFromRaw(raw)
      [] t = "Ptsname" -> PtsnameTryFromRaw(raw)
      [] t = "Csctty" -> CscttyTryFromRaw(raw)
      [] t = "Signalfd" -> SignalfdTryFromRaw(raw)

ToErrno(t, v) ==
    CASE t = "Openpt" -> OpenptToErrno(v)
      [] t = "Unlockpt" -> UnlockptToErrno(v)
      [] t = "Ptsname" -> PtsnameToErrno(v)
      [] t = "Csctty" -> CscttyToErrno(v)
      [] t = "Signalfd" -> SignalfdToErrno(v)

AsErrno(t, v) ==
    CASE t = "Openpt" -> OpenptAsErrno(v)
      [] t = "Unlockpt" -> UnlockptAsErrno(v)
      [] t = "Ptsname" -> PtsnameAsErrno(v)
      [] t = "Csctty" -> CscttyAsErrno(v)
      [] t = "Signalfd" -> SignalfdAsErrno(v)

\* A from_errno that turns a code try_from_raw does not know into a generic
\* error value.
FromErrno_Coerces(t, raw) ==
    LET r == TryFromRaw(t, raw) IN IF r = "None" THEN "Other" ELSE r

\* from_errno of each enumeration (openpt_error.rs:56-64 and alike): the
\* variant try_from_raw gives, and a panic when it gives None.
FromErrno(t, raw) ==
    LET r == TryFromRaw(t, raw) IN IF r = "None" THEN "panic" ELSE r

\* No conversion is under study.
NoConv == [type |-> "none", raw |-> "none", val |-> "unset", back |-> "unset",
           ref |-> "unset"]

\* ------------------------------------------------------------------------
\* Wait statuses and diagnostics.

NoStatus == [kind |-> "None", code |-> 0, sig |-> "none"]
Exited(c) == [kind |-> "Exited", code |-> c, sig |-> "none"]
Signaled(s) == [kind |-> "Signaled", code |-> 0, sig |-> s]
Stopped(s) == [kind |-> "Stopped", code |-> 0, sig |-> s]

NoDiag == [kind |-> "none", code |-> 0, name |-> "none", number |-> 0]

\* The panic exits of the supervisor, and the states in which control has
\* left parent_process.
PanicStates == {"panic_add", "panic_wait", "panic_stdout", "panic_errno"}
LeftStates == PanicStates \cup {"returned"}

\* The panic exits of main before parent_process is entered.
MainPanicStates == {"panic_ioctl", "panic_fork", "panic_setfl", "panic_main_errno"}

\* main has returned an error before the fork.
MainErrStates == {"main_err"}

ParentAlive == ppc \notin LeftStates \cup MainPanicStates \cup MainErrStates


\* ------------------------------------------------------------------------
\* The operating system, as the supervisor sees it.

\* Delivery of a SIGCHLD with si_code `code` to the supervisor whose pending
\* set is `pend`: a blocked signal becomes pending (one instance, the first
\* siginfo is kept); an unblocked one takes the default disposition of
\* SIGCHLD, which discards it.
ChldPending(pend, code) ==
    IF code # "none" /\ ParentAlive /\ "SIGCHLD" \in sigmask
    THEN pend \cup {"SIGCHLD"} ELSE pend

ChldCode(pend, code) ==
    IF code # "none" /\ ParentAlive /\ "SIGCHLD" \in sigmask /\ "SIGCHLD" \notin pend
    THEN code ELSE chldCode

ChildAlive == {"drop_pty", "setsid", "csctty", "dup2", "drop_sub", "exec", "running", "stopped"}

\* Closing the last handle of the controller side hangs up the subordinate
\* side: the session leader that has it as controlling terminal receives
\* SIGHUP and SIGCONT.  Whether SIGHUP terminates it is up to the target
\* (`kills`); SIGCONT resumes a stopped process in any case.
HangupChild(kills) ==
    IF ~(hasCtty /\ cpc \in ChildAlive /\ "pty" \notin copen)
    THEN [cpc |-> cpc, cstatus |-> cstatus, copen |-> copen, raised |-> "none"]
    ELSE IF kills
    THEN [cpc |-> "zombie", cstatus |-> Signaled("SIGHUP"), copen |-> {},
          raised |-> "CLD_KILLED"]
    ELSE IF cpc = "stopped"
    THEN [cpc |-> "running", cstatus |-> cstatus, copen |-> copen,
          raised |-> "CLD_CONTINUED"]
    ELSE [cpc |-> cpc, cstatus |-> cstatus, copen |-> copen, raised |-> "none"]

\* The supervisor closes its controller handle (or does not hold it any
\* more): the effect on the child and on the supervisor's pending signals,
\* `pend` being the pending set the closing step leaves.
CloseController(kills, pend) ==
    LET h == IF "pty" \in popen THEN HangupChild(kills)
             ELSE [cpc |-> cpc, cstatus |-> cstatus, copen |-> copen, raised |-> "none"]
    IN /\ cpc' = h.cpc
       /\ cstatus' = h.cstatus
       /\ copen' = h.copen
       /\ sigpending' = ChldPending(pend, h.raised)
       /\ chldCode' = ChldCode(pend, h.raised)
       /\ UNCHANGED <<hasCtty, cdup, cwrote, cerr>>

\* No source has an interest registered, or an event reported.
NoInterest == [s \in Src |-> {}]

\* PollInterest::read (poller.rs:31-38): read interest only, as parent_loop
\* gives to its three sources (parent.rs:81-83).
ReadOnly == [s \in Src |-> {"r"}]

\* A source is readable: bytes wait in the pty queue, or the signal of a
\* signalfd is pending.
Readable(src) ==
    IF src = "pty" THEN ptybuf # <<>> ELSE SigOf(src) \in sigpending

\* A source is writable: the controller side of the pty takes bytes; a
\* signalfd never does.
Writable(src) == src = "pty"

\* The readiness the facility can report for a source.  A subordinate handle
\* stays open in the supervisor throughout, so the controller side is never
\* hung up.
ReadyFlags(src) ==
    (IF Readable(src) THEN {"r"} ELSE {}) \cup (IF Writable(src) THEN {"w"} ELSE {})

\* main.rs:127-172: the exit code main gives for the result of parent_process,
\* or for an error of its own.
MainExit(r) == IF r = "Ok" THEN 0 ELSE 1

\* ------------------------------------------------------------------------
\* main.rs:151-170: the geometry of the pty, then fork.

\* The frame of a step of main that succeeds before the fork.
MainFrame ==
    UNCHANGED <<sigmask, sigpending, chldCode, popen, pollVars, result, waitpidCalls,
                reportVars, stdout, osFault, ptybuf, winch, stops, termWinsz, inputVars, nonblock,
                ptyRead>>

\* A panic of main before the fork: the process ends with code 101 and no
\* child exists.
MainPanic(kind) ==
    /\ ppc' = kind
    /\ exitCode' = 101
    /\ popen' = {}
    /\ osFault' = TRUE
    /\ UNCHANGED <<sigmask, sigpending, chldCode, pollVars, result, waitpidCalls, wstatus,
                   diag, ret, stdout, childVars, ptybuf, winch, stops, geomVars, inputVars, nonblock,
                   ptyRead>>

\* main.rs:151 and pty.rs:147-164: getwinsz(stdin).
MainGetwinszOk ==
    /\ ppc = "getwinsz"
    /\ currentSize' = termWinsz
    /\ ppc' = "setwinsz"
    /\ UNCHANGED <<ptyWinsz, childVars>>
    /\ MainFrame

\* pty.rs:158-161: the ioctl fails and getwinsz panics.
MainGetwinszPanic ==
    /\ ppc = "getwinsz"
    /\ MainPanic("panic_ioctl")

\* main.rs:152 and pty.rs:166-172: setwinsz(pty_fd, current_size).
MainSetwinszOk ==
    /\ ppc = "setwinsz"
    /\ ptyWinsz' = currentSize
    /\ ppc' = "fork"
    /\ UNCHANGED <<currentSize, childVars>>
    /\ MainFrame

\* pty.rs:168-171: the ioctl fails and setwinsz panics.
MainSetwinszPanic ==
    /\ ppc = "setwinsz"
    /\ MainPanic("panic_ioctl")

\* main.rs:157-166 and parent.rs:110-117: fork succeeds.  The child starts in
\* the Child arm with a copy of every handle; the parent enters
\* parent_process and parent_loop.
MainForkOk ==
    /\ ppc = "fork"
    /\ ppc' = "block_sigchld"
    /\ cpc' = "drop_pty"
    /\ copen' = popen
    /\ UNCHANGED <<hasCtty, cdup, cstatus, cwrote, cerr, currentSize, ptyWinsz>>
    /\ MainFrame

\* main.rs:167-169: fork fails and main panics.
MainForkPanic ==
    /\ ppc = "fork"
    /\ MainPanic("panic_fork")

\* ------------------------------------------------------------------------
\* main.rs:127-149: the two sides of the pty are opened.

\* The frame of a step of main before getwinsz, the handles excepted.
PreludeFrame ==
    UNCHANGED <<sigmask, sigpending, chldCode, pollVars, result, waitpidCalls,
                reportVars, stdout, osFault, childVars, ptybuf, winch, stops, geomVars,
                inputVars, ptyRead>>

\* main returns an error with `?` before the fork: the process ends with
\* code 1 and no child exists.
MainReturnErr ==
    /\ ppc' = "main_err"
    /\ exitCode' = MainExit("Err")
    /\ popen' = {}
    /\ osFault' = TRUE
    /\ UNCHANGED <<sigmask, sigpending, chldCode, pollVars, result, waitpidCalls, wstatus,
                   diag, ret, stdout, childVars, ptybuf, winch, stops, geomVars, inputVars,
                   nonblock, ptyRead>>

\* main.rs:127 and pty.rs:57-83: posix_openpt(O_RDWR); the new handle is in
\* blocking mode.
MainOpenptOk ==
    /\ ppc = "openpt"
    /\ popen' = popen \cup {"pty"}
    /\ ppc' = "set_nonblocking"
    /\ UNCHANGED nonblock
    /\ PreludeFrame

\* pty.rs:69-71 and main.rs:127: posix_openpt fails with a code OpenptError
\* lists.
MainOpenptErr ==
    /\ ppc = "openpt"
    /\ MainReturnErr

\* openpt_error.rs:43-46, 56-63: posix_openpt fails with another code.
MainOpenptPanic ==
    /\ ppc = "openpt"
    /\ MainPanic("panic_main_errno")

\* An fcntl that reports success and leaves the status flags as they were.
SetNonblocking_Noop(nb, h) == nb

\* fdops.rs:15-22, 41-44: fcntl(F_SETFL, O_NONBLOCK) puts the handle in
\* nonblocking mode.
SetNonblocking(nb, h) == nb \cup {h}

\* main.rs:129: pty_fd.as_fd().set_nonblocking().
MainSetNonblockingOk ==
    /\ ppc = "set_nonblocking"
    /\ nonblock' = SetNonblocking(nonblock, "pty")
    /\ ppc' = "unlockpt"
    /\ UNCHANGED popen
    /\ PreludeFrame

\* fdops.rs:23-27: fcntl fails and set_fl panics.
MainSetNonblockingPanic ==
    /\ ppc = "set_nonblocking"
    /\ MainPanic("panic_setfl")

\* main.rs:131 and pty.rs:86-101: unlockpt(pty_fd).
MainUnlockptOk ==
    /\ ppc = "unlockpt"
    /\ ppc' = "ptsname"
    /\ UNCHANGED <<popen, nonblock>>
    /\ PreludeFrame

\* pty.rs:91-96: unlockpt fails with the code UnlockptError lists.
MainUnlockptErr ==
    /\ ppc = "unlockpt"
    /\ MainReturnErr

\* unlockpt_error.rs:39-47: unlockpt fails with another code.
MainUnlockptPanic ==
    /\ ppc = "unlockpt"
    /\ MainPanic("panic_main_errno")

\* main.rs:135 and pty.rs:104-143: ptsname(pty_fd).
MainPtsnameOk ==
    /\ ppc = "ptsname"
    /\ ppc' = "open_sub"
    /\ UNCHANGED <<popen, nonblock>>
    /\ PreludeFrame

\* pty.rs:115-120: ptsname_r fails with the code PtsnameError lists.
MainPtsnameErr ==
    /\ ppc = "ptsname"
    /\ MainReturnErr

\* ptsname_error.rs:42-50: ptsname_r fails with another code.
MainPtsnamePanic ==
    /\ ppc = "ptsname"
    /\ MainPanic("panic_main_errno")

\* main.rs:138-144: the subordinate side is opened by name with
\* O_NONBLOCK | O_NOCTTY.
MainOpenSubOk ==
    /\ ppc = "open_sub"
    /\ popen' = popen \cup {"sub"}
    /\ nonblock' = nonblock \cup {"sub"}
    /\ ppc' = "getwinsz"
    /\ PreludeFrame

\* main.rs:142-144: the open fails.
MainOpenSubErr ==
    /\ ppc = "open_sub"
    /\ MainReturnErr

\* ------------------------------------------------------------------------
\* parent.rs: parent_process, parent_loop, handle_signals_as_file.

\* parent.rs:126-144: the diagnostic printed for a reaped status.
Classify(st) ==
    CASE st.kind = "Exited" /\ st.code # 0 ->
            [kind |-> "nonzero_exit", code |-> st.code, name |-> "none", number |-> 0]
      [] st.kind = "Exited" /\ st.code = 0 -> NoDiag
      [] st.kind = "Signaled" ->
            [kind |-> "killed", code |-> 0, name |-> st.sig, number |-> SigNum(st.sig)]
      [] st.kind = "Stopped" ->
            [kind |-> "stopped", code |-> 0, name |-> st.sig, number |-> SigNum(st.sig)]
      [] OTHER -> [kind |-> "unknown", code |-> 0, name |-> "none", number |-> 0]

\* A parent_process that ends with Ok(()) instead of `result`.
ParentProcessReturn_AlwaysOk(res, st) == "Ok"

\* A parent_process that turns a nonzero exit code of the child into an error.
ParentProcessReturn_FailsOnNonzero(res, st) ==
    IF st.kind = "Exited" /\ st.code # 0 THEN "ErrChildStatus" ELSE res

\* parent.rs:146: parent_process returns the result of parent_loop,
\* whatever status was reaped.
ParentProcessReturn(res, st) == res

\* parent.rs:120: waitpid(child, None) returns only for a terminated child,
\* with its termination status.
WaitpidReady == cpc = "zombie"

\* A panic unwinds out of parent_process and ends the process with code 101;
\* every handle of the process is closed by the exit.  The poller's record
\* is left as the panic found it.
Panic(kind, kills, pend) ==
    /\ ppc' = kind
    /\ exitCode' = 101
    /\ popen' = {}
    /\ osFault' = TRUE
    /\ CloseController(kills, pend)

\* parent_loop returns `res`: its locals (the pty File, the signal Files, the
\* Poller with its sources) are dropped, and parent_process goes on to
\* waitpid (parent.rs:117-120).
ParentLoopReturn(res, kills, pend) ==
    /\ result' = res
    /\ popen' = popen \ Src
    /\ registered' = {}
    /\ interest' = NoInterest
    /\ armed' = {}
    /\ fds' = <<>>
    /\ events' = <<>>
    /\ evflags' = NoInterest
    /\ ppc' = "waitpid"
    /\ waitpidCalls' = waitpidCalls + 1
    /\ CloseController(kills, pend)

PcBlock(src) == IF src = "sigchld" THEN "block_sigchld" ELSE "block_sigwinch"
PcSignalfd(src) == IF src = "sigchld" THEN "signalfd_sigchld" ELSE "signalfd_sigwinch"
ErrOf(src) == IF src = "sigchld" THEN "ErrSigchld" ELSE "ErrSigwinch"

\* An error that parent_loop returns with `?`: the frame of such a step.
LoopError(res) ==
    /\ \E kills \in BOOLEAN : ParentLoopReturn(res, kills, sigpending)
    /\ osFault' = TRUE
    /\ UNCHANGED <<sigmask, deregs, data, dataCode, drainEnd, reportVars, stdout, ptybuf, winch,
                   geomVars, inputVars, nonblock, ptyRead,
                   stops>>

\* A panic inside parent_loop: the frame of such a step, the poller's record
\* excepted.
PanicExit(kind) ==
    /\ \E kills \in BOOLEAN : Panic(kind, kills, sigpending)
    /\ UNCHANGED <<sigmask, events, evflags, data, dataCode, drainEnd, result, waitpidCalls, wstatus, diag,
                   ret, stdout, ptybuf, winch, geomVars, inputVars, nonblock, ptyRead, stops>>

\* A sigprocmask that reports success and leaves the mask as it was.
SigBlock_Noop(mask, sig) == mask

\* A sigprocmask called with SIG_SETMASK: the set replaces the mask.
SigBlock_SetMask(mask, sig) == {sig}

\* parent.rs:47-53: sigprocmask(SIG_BLOCK, {sig}) adds the signal to the mask.
SigBlock(mask, sig) == mask \cup {sig}

\* parent.rs:46-53: handle_signals_as_file blocks the signal.
HandleSignalsBlockOk(src) ==
    /\ ppc = PcBlock(src)
    /\ sigmask' = SigBlock(sigmask, SigOf(src))
    /\ ppc' = PcSignalfd(src)
    /\ UNCHANGED <<sigpending, chldCode, popen, pollVars, result, waitpidCalls,
                   reportVars, stdout, osFault, childVars, ptybuf, winch, geomVars,
                   inputVars, nonblock, ptyRead, stops>>

\* parent.rs:51-53 and 71-72, 76-77: sigprocmask fails.
HandleSignalsBlockErr(src) ==
    /\ ppc = PcBlock(src)
    /\ LoopError(ErrOf(src))

\* parent.rs:57: signalfd(NEW_FD, &set, SfdFlags::SFD_NONBLOCK): the new handle
\* is created in nonblocking mode.
SignalfdFlags(nb, src) == nb \cup {src}

\* parent.rs:55-63 and 29-41: the signalfd for the blocked signal.
HandleSignalsSignalfdOk(src) ==
    /\ ppc = PcSignalfd(src)
    /\ popen' = popen \cup {src}
    /\ nonblock' = SignalfdFlags(nonblock, src)
    /\ ppc' = IF src = "sigchld" THEN PcBlock("sigwinch") ELSE "poller_new"
    /\ UNCHANGED <<sigmask, sigpending, chldCode, pollVars, result, waitpidCalls,
                   reportVars, stdout, osFault, childVars, ptybuf, winch, geomVars,
                   inputVars, ptyRead, stops>>

\* parent.rs:34-38 and 57-59: signalfd fails with a code SignalfdError lists.
HandleSignalsSignalfdErr(src) ==
    /\ ppc = PcSignalfd(src)
    /\ LoopError(ErrOf(src))

\* signalfd_error.rs:51-59: signalfd fails with a code outside the list, and
\* from_errno panics.
HandleSignalsSignalfdPanic(src) ==
    /\ ppc = PcSignalfd(src)
    /\ PanicExit("panic_errno")
    /\ UNCHANGED <<fds, registered, interest, armed, deregs>>

\* ------------------------------------------------------------------------
\* poller.rs: Poller::with_sources, Poller::each_with, Poller::cleanup.

\* poller.rs:179-186: cleanup deletes every source of the vector it is given.
CleanupSet(srcs) == Range(srcs)

\* The deregistration counts after cleanup has deleted the sources D: a
\* delete of a source that is not registered fails and is only logged.
DeregsAfter(D) ==
    [s \in Src |-> IF s \in D \cap registered THEN deregs[s] + 1 ELSE deregs[s]]

\* poller.rs:97-103: polling::Poller::new(), then the registration loop over
\* the sources given, which has no turn to make when none is given.
PollerNewOk ==
    /\ ppc = "poller_new"
    /\ ppc' = IF given = <<>> THEN "wait" ELSE "add"
    /\ UNCHANGED <<sigmask, sigpending, chldCode, popen, pollVars, result, waitpidCalls,
                   reportVars, stdout, osFault, childVars, ptybuf, winch, geomVars,
                   inputVars, nonblock, ptyRead, stops>>

PollerNewErr ==
    /\ ppc = "poller_new"
    /\ LoopError("ErrPollerNew")

\* poller.rs:103-111: one turn of the registration loop.  The file is pushed
\* to fds, then added to the poller with the interest it came with.
WithSourcesAddOk ==
    /\ ppc = "add"
    /\ Len(fds) < Len(given)
    /\ LET src == given[Len(fds) + 1]
       IN /\ fds' = Append(fds, src)
          /\ registered' = registered \cup {src}
          /\ interest' = [interest EXCEPT ![src] = setup[src]]
          /\ armed' = armed \cup {src}
          /\ ppc' = IF Len(fds) + 1 = Len(given) THEN "wait" ELSE "add"
    /\ UNCHANGED <<sigmask, sigpending, chldCode, popen, deregs, events, evflags, data, dataCode, drainEnd,
                   result, waitpidCalls, reportVars, stdout, osFault, childVars, ptybuf,
                   winch, geomVars, inputVars, nonblock, ptyRead, stops>>

\* A failure path of add that panics without running cleanup.
FailedAddCleanup_Missing(pushed) == {}

\* poller.rs:114-117: what the failure path of add hands to cleanup, fds with
\* the file that failed already pushed.
FailedAddCleanup(pushed) == CleanupSet(pushed)

\* poller.rs:114-118: add fails; cleanup runs over fds, then the setup panics.
WithSourcesAddPanic ==
    /\ ppc = "add"
    /\ Len(fds) < Len(given)
    /\ LET D == FailedAddCleanup(Append(fds, given[Len(fds) + 1]))
       IN /\ fds' = <<>>
          /\ registered' = registered \ D
          /\ interest' = [s \in Src |-> IF s \in D THEN {} ELSE interest[s]]
          /\ armed' = armed \ D
          /\ deregs' = DeregsAfter(D)
    /\ PanicExit("panic_add")

\* poller.rs:142-143: the unbounded readiness wait.  It returns when at least
\* one armed source is readable, with every such source, in an order the
\* facility chooses; reporting a source disarms it (one-shot).
EachWithWaitOk ==
    /\ ppc = "wait"
    /\ LET ready == {s \in armed : interest[s] \cap ReadyFlags(s) # {}}
       IN /\ ready # {}
          /\ events' \in Perms(ready)
          /\ evflags' = [s \in Src |-> IF s \in ready THEN interest[s] \cap ReadyFlags(s)
                                       ELSE {}]
          /\ armed' = armed \ ready
    /\ ppc' = "read"
    /\ data' = <<>>
    /\ dataCode' = "none"
    /\ drainEnd' = "none"
    /\ UNCHANGED <<sigmask, sigpending, chldCode, popen, fds, registered, interest, deregs, result,
                   waitpidCalls, reportVars, stdout, osFault, childVars, ptybuf, winch,
                   geomVars, inputVars, nonblock, ptyRead,
                   stops>>

\* poller.rs:143: wait fails and expect() panics.
EachWithWaitPanic ==
    /\ ppc = "wait"
    /\ PanicExit("panic_wait")
    /\ UNCHANGED <<fds, registered, interest, armed, deregs>>

\* A read_until_block that keeps only the bytes of its last read.
ExtendFromSlice_Overwrites(d, chunk) == chunk

\* poller.rs:65-66: data.extend_from_slice(read_data).
ExtendFromSlice(d, chunk) == d \o chunk

\* poller.rs:58-67: one read of read_until_block on the source of the current
\* event returns count > 0 bytes, which are appended to data.
ReadUntilBlockData ==
    /\ ppc = "read"
    /\ LET src == Head(events)
       IN /\ Readable(src)
          /\ IF src = "pty"
             THEN \E n \in 1..Min(Len(ptybuf), BUFFER_SIZE) :
                     /\ data' = ExtendFromSlice(data, Take(ptybuf, n))
                     /\ ptybuf' = Drop(ptybuf, n)
                     /\ ptyRead' = ptyRead \o Take(ptybuf, n)
                     /\ UNCHANGED <<sigpending, chldCode, dataCode>>
             ELSE /\ data' = ExtendFromSlice(data, SiginfoData)
                  /\ sigpending' = sigpending \ {SigOf(src)}
                  /\ dataCode' = IF src = "sigchld" THEN chldCode ELSE dataCode
                  /\ chldCode' = IF src = "sigchld" THEN "none" ELSE chldCode
                  /\ UNCHANGED <<ptybuf, ptyRead>>
    /\ UNCHANGED <<ppc, sigmask, popen, fds, registered, interest, armed, deregs, events, evflags, drainEnd,
                   result, waitpidCalls, reportVars, stdout, osFault, childVars, winch,
                   geomVars, inputVars, nonblock, stops>>

\* poller.rs:68-73: the read would block; the drain ends with data.  Only a
\* handle in nonblocking mode reports would-block; a read of an empty handle
\* in blocking mode suspends the supervisor until the handle is readable.
ReadUntilBlockWouldBlock ==
    /\ ppc = "read"
    /\ ~Readable(Head(events))
    /\ Head(events) \in nonblock
    /\ ppc' = "handle"
    /\ drainEnd' = "wouldblock"
    /\ UNCHANGED <<sigmask, sigpending, chldCode, popen, fds, registered, interest, armed, deregs,
                   events, evflags, data, dataCode, result, waitpidCalls,
                   reportVars, stdout, osFault, childVars, ptybuf, winch, geomVars,
                   inputVars, nonblock, ptyRead, stops>>

\* A read_until_block that takes a zero-byte read for the end of the stream:
\* each_with stops as on a handler stop, without invoking the handler.
ReadUntilBlockZero_EndOfStream ==
    /\ ppc = "read"
    /\ Head(events) = "pty"
    /\ ~Readable("pty")
    /\ drainEnd' = "zero"
    /\ deregs' = DeregsAfter(CleanupSet(fds))
    /\ \E kills \in BOOLEAN : ParentLoopReturn("Ok", kills, sigpending)
    /\ UNCHANGED <<sigmask, data, dataCode, reportVars, stdout, osFault, ptybuf, winch,
                   geomVars, inputVars, nonblock, ptyRead, stops>>

\* poller.rs:59-63: the read returns zero bytes; the drain ends with data.
\* Only the pty can do so, a signalfd read yields whole records or would
\* block; and a read returns zero bytes only when no byte is queued.
ReadUntilBlockZero ==
    /\ ppc = "read"
    /\ Head(events) = "pty"
    /\ ~Readable("pty")
    /\ ppc' = "handle"
    /\ drainEnd' = "zero"
    /\ UNCHANGED <<sigmask, sigpending, chldCode, popen, fds, registered, interest, armed, deregs,
                   events, evflags, data, dataCode, result, waitpidCalls,
                   reportVars, stdout, osFault, childVars, ptybuf, winch, geomVars,
                   inputVars, nonblock, ptyRead, stops>>

\* A read_until_block that hands the bytes of the failed drain to the handler
\* before the error is returned.
ReadUntilBlockErr_DeliversPartial ==
    /\ ppc = "read"
    /\ \E kills \in BOOLEAN : ParentLoopReturn("ErrRead", kills, sigpending)
    /\ osFault' = TRUE
    /\ stdout' = stdout \o data
    /\ UNCHANGED <<sigmask, deregs, data, dataCode, drainEnd, reportVars, ptybuf, winch,
                   geomVars, inputVars, nonblock, ptyRead, stops>>

\* poller.rs:73-75 and 153-155: the read fails with another error, which
\* each_with and parent_loop return.
ReadUntilBlockErr ==
    /\ ppc = "read"
    /\ LoopError("ErrRead")

\* A handler that stops the loop on pty output as well.
Handler_PtyStops(key) == IF key \in {"sigchld", "pty"} THEN "Break" ELSE "Continue"

\* A handler that stops the loop on a window-size event as well.
Handler_WinchStops(key) == IF key \in {"sigchld", "sigwinch"} THEN "Break" ELSE "Continue"

\* parent.rs:93-102: the handler of parent_loop.
Handler(key) == IF key = "sigchld" THEN "Break" ELSE "Continue"

\* A handler that writes the payload of every event to stdout.
HandlerOutput_WritesEvery(key, d) == d

\* parent.rs:93-94: what the handler writes to stdout for an event.
HandlerOutput(key, d) == IF key = "pty" THEN d ELSE <<>>

\* poller.rs:156 and parent.rs:90-102: the handler is invoked with the
\* drained bytes and returns Continue.
EachWithHandleContinue ==
    /\ ppc = "handle"
    /\ Handler(Head(events)) = "Continue"
    /\ stdout' = stdout \o HandlerOutput(Head(events), data)
    /\ ppc' = "rearm"
    /\ UNCHANGED <<sigmask, sigpending, chldCode, popen, pollVars, result, waitpidCalls,
                   reportVars, osFault, childVars, ptybuf, winch, geomVars, inputVars, nonblock,
                   ptyRead, stops>>

\* parent.rs:94: stdout.write_all(..).unwrap() panics when the write fails.
EachWithHandlePanic ==
    /\ ppc = "handle"
    /\ Head(events) = "pty"
    /\ PanicExit("panic_stdout")
    /\ UNCHANGED <<fds, registered, interest, armed, deregs>>

\* poller.rs:156-159, 168-170 and parent.rs:97-107: the handler returns
\* Break.  each_with leaves the loop at once, runs cleanup over its sources
\* and returns Ok; parent_loop returns Ok.
EachWithHandleBreak ==
    /\ ppc = "handle"
    /\ Handler(Head(events)) = "Break"
    /\ stdout' = stdout \o HandlerOutput(Head(events), data)
    /\ deregs' = DeregsAfter(CleanupSet(fds))
    /\ \E kills \in BOOLEAN : ParentLoopReturn("Ok", kills, sigpending)
    /\ UNCHANGED <<sigmask, data, dataCode, drainEnd, reportVars, osFault, ptybuf, winch, geomVars,
                   inputVars, nonblock, ptyRead, stops>>

\* A re-arm that leaves the one-shot interest of the source spent.
Rearmed_Never(a, src) == a

\* poller.rs:162: modify re-activates the one-shot interest of the source.
Rearmed(a, src) == a \cup {src}

\* poller.rs:162: modify(matching_file, event): the interest registered by
\* the re-arm is the event that was reported, with its readiness flags; the
\* interest `su` given at setup is not consulted.
RearmInterest(su, ev) == ev

\* poller.rs:161-164: re-establish interest in the source, then go on with
\* the next event of the batch, or wait again.
EachWithRearmOk ==
    /\ ppc = "rearm"
    /\ armed' = Rearmed(armed, Head(events))
    /\ interest' = [interest EXCEPT
                        ![Head(events)] = RearmInterest(setup[Head(events)],
                                                        evflags[Head(events)])]
    /\ events' = Tail(events)
    /\ evflags' = [evflags EXCEPT ![Head(events)] = {}]
    /\ ppc' = IF Tail(events) = <<>> THEN "wait" ELSE "read"
    /\ data' = <<>>
    /\ dataCode' = "none"
    /\ drainEnd' = "none"
    /\ UNCHANGED <<sigmask, sigpending, chldCode, popen, fds, registered, deregs, result,
                   waitpidCalls, reportVars, stdout, osFault, childVars, ptybuf, winch,
                   geomVars, inputVars, nonblock, ptyRead,
                   stops>>

\* poller.rs:162-164: modify fails; each_with and parent_loop return the error.
EachWithRearmErr ==
    /\ ppc = "rearm"
    /\ LoopError("ErrRearm")

\* parent.rs:120: the blocking reap returns the termination status of the
\* child once the child has terminated.
WaitpidOk ==
    /\ ppc = "waitpid"
    /\ WaitpidReady
    /\ wstatus' = cstatus
    /\ cpc' = "reaped"
    /\ ppc' = "classify"
    /\ UNCHANGED <<sigmask, sigpending, chldCode, popen, pollVars, result, waitpidCalls,
                   diag, ret, exitCode, stdout, osFault, copen, hasCtty, cdup, cstatus,
                   cwrote, cerr, ptybuf, winch, geomVars, inputVars, nonblock, ptyRead, stops>>

\* parent.rs:120-122 and main.rs:165: waitpid fails; parent_process returns
\* that error and main exits with it.
WaitpidErr ==
    /\ ppc = "waitpid"
    /\ ret' = "ErrWaitpid"
    /\ exitCode' = MainExit("ErrWaitpid")
    /\ ppc' = "returned"
    /\ popen' = {}
    /\ osFault' = TRUE
    /\ UNCHANGED <<sigmask, sigpending, chldCode, pollVars, result, waitpidCalls,
                   wstatus, diag, stdout, childVars, ptybuf, winch, geomVars, inputVars, nonblock,
                   ptyRead, stops>>

\* parent.rs:125-146 and main.rs:165-172: classify the status, print the
\* diagnostic, return the loop's result; main turns it into the exit code.
ClassifyAndReturn ==
    /\ ppc = "classify"
    /\ diag' = Classify(wstatus)
    /\ ret' = ParentProcessReturn(result, wstatus)
    /\ exitCode' = MainExit(ParentProcessReturn(result, wstatus))
    /\ ppc' = "returned"
    /\ popen' = {}
    /\ UNCHANGED <<sigmask, sigpending, chldCode, pollVars, result, waitpidCalls, wstatus,
                   stdout, osFault, childVars, ptybuf, winch, geomVars, inputVars, nonblock, ptyRead,
                   stops>>

\* ------------------------------------------------------------------------
\* main.rs:158-163 and child.rs: the child arm, then the target program.

\* The child terminates with status `st`: its handles are closed and the
\* supervisor is sent SIGCHLD.
ChildTerminates(st, code) ==
    /\ cpc' = "zombie"
    /\ cstatus' = st
    /\ copen' = {}
    /\ sigpending' = ChldPending(sigpending, code)
    /\ chldCode' = ChldCode(sigpending, code)
    /\ UNCHANGED <<hasCtty, cdup, cwrote>>

\* A child arm that ends with success when child_process has failed.
ChildFailStatus_Success == Exited(0)

\* main.rs:162: the `?` of the child arm makes main return the error of
\* child_process, and the child process exits with code 1.
ChildFailStatus == Exited(1)

\* child_process returns the error `err` before exec.
ChildFails(err) ==
    /\ ChildTerminates(ChildFailStatus, "CLD_EXITED")
    /\ cerr' = err

\* csctty_error.rs:39-47: an errno that CscttyError does not list makes
\* from_errno panic; the child process ends with code 101.
ChildPanics ==
    /\ ChildTerminates(Exited(101), "CLD_EXITED")
    /\ cerr' = "panic"

\* main.rs:159: drop(pty_fd).
ChildDropPty ==
    /\ cpc = "drop_pty"
    /\ cpc' = "setsid"
    /\ copen' = copen \ {"pty"}
    /\ UNCHANGED <<hasCtty, cdup, cstatus, cwrote, cerr, sigpending, chldCode, parentVars,
                   ptybuf, winch, geomVars, inputVars, nonblock, ptyRead, stops>>

\* child.rs:23: setsid().
ChildSetsid ==
    /\ cpc = "setsid"
    /\ \/ /\ cpc' = "csctty"
          /\ UNCHANGED <<copen, hasCtty, cdup, cstatus, cwrote, cerr, sigpending,
                         chldCode>>
       \/ ChildFails("setsid")
    /\ UNCHANGED <<parentVars, ptybuf, winch, geomVars, inputVars, nonblock, ptyRead, stops>>

\* A child_process that goes on to dup2 when csctty has failed.
ChildCsctty_IgnoresError ==
    /\ cpc = "csctty"
    /\ cpc' = "dup2"
    /\ hasCtty' \in BOOLEAN
    /\ UNCHANGED <<copen, cdup, cstatus, cwrote, cerr, sigpending, chldCode>>
    /\ UNCHANGED <<parentVars, ptybuf, winch, geomVars, inputVars, nonblock, ptyRead, stops>>

\* child.rs:27 and pty.rs:174-185: csctty().
ChildCsctty ==
    /\ cpc = "csctty"
    /\ \/ /\ cpc' = "dup2"
          /\ hasCtty' = TRUE
          /\ UNCHANGED <<copen, cdup, cstatus, cwrote, cerr, sigpending, chldCode>>
       \/ ChildFails("PermissionDenied")
       \/ ChildPanics
    /\ UNCHANGED <<parentVars, ptybuf, winch, geomVars, inputVars, nonblock, ptyRead, stops>>

\* child.rs:37-41: dup2 of the subordinate handle onto one standard stream.
ChildDup2 ==
    /\ cpc = "dup2"
    /\ \/ /\ cdup' = cdup + 1
          /\ cpc' = IF cdup + 1 = 3 THEN "drop_sub" ELSE "dup2"
          /\ UNCHANGED <<copen, hasCtty, cstatus, cwrote, cerr, sigpending, chldCode>>
       \/ ChildFails("dup2")
    /\ UNCHANGED <<parentVars, ptybuf, winch, geomVars, inputVars, nonblock, ptyRead, stops>>

\* child.rs:44: drop(our_pty).
ChildDropSub ==
    /\ cpc = "drop_sub"
    /\ cpc' = "exec"
    /\ copen' = copen \ {"sub"}
    /\ UNCHANGED <<hasCtty, cdup, cstatus, cwrote, cerr, sigpending, chldCode, parentVars,
                   ptybuf, winch, geomVars, inputVars, nonblock, ptyRead, stops>>

\* child.rs:46-52: exec of the target, or the error returned when it fails.
ChildExec ==
    /\ cpc = "exec"
    /\ \/ /\ cpc' = "running"
          /\ UNCHANGED <<copen, hasCtty, cdup, cstatus, cwrote, cerr, sigpending,
                         chldCode>>
       \/ ChildFails("exec")
    /\ UNCHANGED <<parentVars, ptybuf, winch, geomVars, inputVars, nonblock, ptyRead, stops>>

\* The target writes a byte to its terminal while the controller side is open.
TargetWrite ==
    /\ cpc = "running"
    /\ "pty" \in popen
    /\ Len(cwrote) < MaxChildBytes
    /\ \E b \in Bytes :
          /\ cwrote' = Append(cwrote, b)
          /\ ptybuf' = Append(ptybuf, b)
    /\ UNCHANGED <<cpc, copen, hasCtty, cdup, cstatus, cerr, sigpending, chldCode, parentVars,
                   winch, geomVars, inputVars, nonblock, ptyRead, stops>>

\* The target exits.
TargetExit ==
    /\ cpc = "running"
    /\ \E c \in ExitCodes : ChildTerminates(Exited(c), "CLD_EXITED")
    /\ UNCHANGED cerr
    /\ UNCHANGED <<parentVars, ptybuf, winch, geomVars, inputVars, nonblock, ptyRead, stops>>

\* The target is killed by a signal.
TargetKilled ==
    /\ cpc \in {"running", "stopped"}
    /\ ChildTerminates(Signaled("SIGKILL"), "CLD_KILLED")
    /\ UNCHANGED cerr
    /\ UNCHANGED <<parentVars, ptybuf, winch, geomVars, inputVars, nonblock, ptyRead, stops>>

\* The target is stopped by a signal; the supervisor is sent SIGCHLD.
TargetStopped ==
    /\ cpc = "running"
    /\ stops < MaxStops
    /\ stops' = stops + 1
    /\ cpc' = "stopped"
    /\ sigpending' = ChldPending(sigpending, "CLD_STOPPED")
    /\ chldCode' = ChldCode(sigpending, "CLD_STOPPED")
    /\ UNCHANGED <<copen, hasCtty, cdup, cstatus, cwrote, cerr, parentVars, ptybuf, winch,
                   geomVars, inputVars, nonblock, ptyRead>>

\* The stopped target is continued; the supervisor is sent SIGCHLD.
TargetContinued ==
    /\ cpc = "stopped"
    /\ cpc' = "running"
    /\ sigpending' = ChldPending(sigpending, "CLD_CONTINUED")
    /\ chldCode' = ChldCode(sigpending, "CLD_CONTINUED")
    /\ UNCHANGED <<copen, hasCtty, cdup, cstatus, cwrote, cerr, parentVars, ptybuf, winch,
                   geomVars, inputVars, nonblock, ptyRead,
                   stops>>

\* The invoking terminal is resized: SIGWINCH is sent to the supervisor.  It
\* becomes pending when blocked and is discarded by its default disposition
\* otherwise.
RaiseWinch ==
    /\ ParentAlive
    /\ winch < MaxWinch
    /\ winch' = winch + 1
    /\ termWinsz' \in Geoms \ {termWinsz}
    /\ sigpending' = IF "SIGWINCH" \in sigmask THEN sigpending \cup {"SIGWINCH"}
                     ELSE sigpending
    /\ UNCHANGED <<chldCode, parentVars, childVars, ptybuf, stops, currentSize, ptyWinsz,
                   inputVars, nonblock, ptyRead>>

\* ------------------------------------------------------------------------
\* The state of main once both sides of the pty are open (main.rs:127-149),
\* before the geometry is copied and the child is forked.
Init ==
    /\ ppc = "getwinsz"
    /\ sigmask = {}
    /\ sigpending = {}
    /\ chldCode = "none"
    /\ popen = {"pty", "sub"}
    /\ nonblock = {"pty", "sub"}
    /\ fds = <<>>
    /\ registered = {}
    /\ interest = NoInterest
    /\ armed = {}
    /\ deregs = [s \in Src |-> 0]
    /\ events = <<>>
    /\ evflags = NoInterest
    /\ data = <<>>
    /\ dataCode = "none"
    /\ drainEnd = "none"
    /\ result = "none"
    /\ waitpidCalls = 0
    /\ wstatus = NoStatus
    /\ diag = NoDiag
    /\ ret = "none"
    /\ exitCode = -1
    /\ stdout = <<>>
    /\ cpc = "unborn"
    /\ copen = {}
    /\ hasCtty = FALSE
    /\ cdup = 0
    /\ cstatus = NoStatus
    /\ cwrote = <<>>
    /\ cerr = "none"
    /\ ptybuf = <<>>
    /\ winch = 0
    /\ stops = 0
    /\ osFault = FALSE
    /\ termWinsz = StartGeom
    /\ currentSize = "unset"
    /\ ptyWinsz = "unset"
    /\ given = SourceOrder
    /\ setup = ReadOnly
    /\ conv = NoConv
    /\ ptyRead = <<>>

\* The steps of the supervisor in which no system call fails.
ParentProgress ==
    \/ MainGetwinszOk
    \/ MainSetwinszOk
    \/ MainForkOk
    \/ \E src \in {"sigchld", "sigwinch"} : HandleSignalsBlockOk(src)
    \/ \E src \in {"sigchld", "sigwinch"} : HandleSignalsSignalfdOk(src)
    \/ PollerNewOk
    \/ WithSourcesAddOk
    \/ EachWithWaitOk
    \/ ReadUntilBlockData
    \/ ReadUntilBlockWouldBlock
    \/ ReadUntilBlockZero
    \/ EachWithHandleContinue
    \/ EachWithHandleBreak
    \/ EachWithRearmOk
    \/ WaitpidOk
    \/ ClassifyAndReturn

\* The steps of the supervisor in which a system call fails.
ParentFailure ==
    \/ MainGetwinszPanic
    \/ MainSetwinszPanic
    \/ MainForkPanic
    \/ \E src \in {"sigchld", "sigwinch"} : HandleSignalsBlockErr(src)
    \/ \E src \in {"sigchld", "sigwinch"} : HandleSignalsSignalfdErr(src)
    \/ \E src \in {"sigchld", "sigwinch"} : HandleSignalsSignalfdPanic(src)
    \/ PollerNewErr
    \/ WithSourcesAddPanic
    \/ EachWithWaitPanic
    \/ ReadUntilBlockErr
    \/ EachWithHandlePanic
    \/ EachWithRearmErr
    \/ WaitpidErr

ParentNext == ParentProgress \/ ParentFailure

ChildNext ==
    \/ ChildDropPty
    \/ ChildSetsid
    \/ ChildCsctty
    \/ ChildDup2
    \/ ChildDropSub
    \/ ChildExec

EnvNext ==
    \/ TargetWrite
    \/ TargetExit
    \/ TargetKilled
    \/ TargetStopped
    \/ TargetContinued
    \/ RaiseWinch

Next == ParentNext \/ ChildNext \/ EnvNext

Spec == Init /\ [][Next]_vars

\* The supervisor is a single thread that the scheduler keeps running: each
\* of its steps that stays possible is eventually taken.  Nothing is assumed
\* of the target program or of the environment, and no system call is
\* required to fail.
FairSpec == Spec /\ WF_vars(ParentProgress)

\* ------------------------------------------------------------------------
\* The whole of main from the opening of the pty on (main.rs:127): no handle
\* is open yet besides the standard streams.
MainInit ==
    /\ ppc = "openpt"
    /\ sigmask = {}
    /\ sigpending = {}
    /\ chldCode = "none"
    /\ popen = {}
    /\ nonblock = {}
    /\ fds = <<>>
    /\ registered = {}
    /\ interest = NoInterest
    /\ armed = {}
    /\ deregs = [s \in Src |-> 0]
    /\ events = <<>>
    /\ evflags = NoInterest
    /\ data = <<>>
    /\ dataCode = "none"
    /\ drainEnd = "none"
    /\ result = "none"
    /\ waitpidCalls = 0
    /\ wstatus = NoStatus
    /\ diag = NoDiag
    /\ ret = "none"
    /\ exitCode = -1
    /\ stdout = <<>>
    /\ cpc = "unborn"
    /\ copen = {}
    /\ hasCtty = FALSE
    /\ cdup = 0
    /\ cstatus = NoStatus
    /\ cwrote = <<>>
    /\ cerr = "none"
    /\ ptybuf = <<>>
    /\ winch = 0
    /\ stops = 0
    /\ osFault = FALSE
    /\ termWinsz = StartGeom
    /\ currentSize = "unset"
    /\ ptyWinsz = "unset"
    /\ given = SourceOrder
    /\ setup = ReadOnly
    /\ conv = NoConv
    /\ ptyRead = <<>>

MainPrelude ==
    \/ MainOpenptOk
    \/ MainOpenptErr
    \/ MainOpenptPanic
    \/ MainSetNonblockingOk
    \/ MainSetNonblockingPanic
    \/ MainUnlockptOk
    \/ MainUnlockptErr
    \/ MainUnlockptPanic
    \/ MainPtsnameOk
    \/ MainPtsnameErr
    \/ MainPtsnamePanic
    \/ MainOpenSubOk
    \/ MainOpenSubErr

MainNext == MainPrelude \/ Next

MainSpec == MainInit /\ [][MainNext]_vars

\* ------------------------------------------------------------------------
\* The errno conversions on their own: an enumeration and an error code are
\* given; from_errno is applied to the code and, when it yields a variant,
\* to_errno and as_errno (through Error::source) are applied to the variant.

ConvInputs ==
    {[type |-> t, raw |-> e, val |-> "unset", back |-> "unset", ref |-> "unset"] :
        t \in ErrTypes, e \in Errnos}

ErrnoInit ==
    /\ conv \in ConvInputs
    /\ ppc = "openpt"
    /\ sigmask = {}
    /\ sigpending = {}
    /\ chldCode = "none"
    /\ popen = {}
    /\ nonblock = {}
    /\ fds = <<>>
    /\ registered = {}
    /\ interest = NoInterest
    /\ armed = {}
    /\ deregs = [s \in Src |-> 0]
    /\ events = <<>>
    /\ evflags = NoInterest
    /\ data = <<>>
    /\ dataCode = "none"
    /\ drainEnd = "none"
    /\ result = "none"
    /\ waitpidCalls = 0
    /\ wstatus = NoStatus
    /\ diag = NoDiag
    /\ ret = "none"
    /\ exitCode = -1
    /\ stdout = <<>>
    /\ cpc = "unborn"
    /\ copen = {}
    /\ hasCtty = FALSE
    /\ cdup = 0
    /\ cstatus = NoStatus
    /\ cwrote = <<>>
    /\ cerr = "none"
    /\ ptybuf = <<>>
    /\ winch = 0
    /\ stops = 0
    /\ osFault = FALSE
    /\ termWinsz = StartGeom
    /\ currentSize = "unset"
    /\ ptyWinsz = "unset"
    /\ given = SourceOrder
    /\ setup = ReadOnly
    /\ ptyRead = <<>>

\* Everything but the conversion.
ConvFrame ==
    UNCHANGED <<ppc, sigmask, sigpending, chldCode, popen, pollVars, result, waitpidCalls,
                reportVars, stdout, osFault, childVars, ptybuf, winch, stops, geomVars,
                given, setup, nonblock, ptyRead>>

\* X::from_errno(raw), as the wrappers call it on a failed call
\* (pty.rs:69-71, 92-95, 116-119; parent.rs:35-37).
ConvFromErrno ==
    /\ conv.val = "unset"
    /\ conv' = [conv EXCEPT !.val = FromErrno(conv.type, conv.raw)]
    /\ ConvFrame

\* X::to_errno(variant), also behind From<X> for Errno.
ConvToErrno ==
    /\ conv.val \in Variants(conv.type)
    /\ conv.back = "unset"
    /\ conv' = [conv EXCEPT !.back = ToErrno(conv.type, conv.val)]
    /\ ConvFrame

\* X::as_errno(variant), which Error::source returns.
ConvAsErrno ==
    /\ conv.val \in Variants(conv.type)
    /\ conv.ref = "unset"
    /\ conv' = [conv EXCEPT !.ref = AsErrno(conv.type, conv.val)]
    /\ ConvFrame

ErrnoNext == ConvFromErrno \/ ConvToErrno \/ ConvAsErrno

ErrnoSpec == ErrnoInit /\ [][ErrnoNext]_vars

\* ------------------------------------------------------------------------
\* read_until_block on its own: the supervisor has been woken for the pty
\* (poller.rs:146-153) and the queue of the pty holds a given input, which the
\* reads of the drain take in chunks of any sizes.

\* The non-empty byte sequences of at most MaxDrainLen bytes.
DrainInputs == UNION {[1..n -> Bytes] : n \in 1..MaxDrainLen}

DrainInit ==
    /\ ppc = "read"
    /\ sigmask = {"SIGCHLD", "SIGWINCH"}
    /\ sigpending = {}
    /\ chldCode = "none"
    /\ popen = {"pty", "sub", "sigchld", "sigwinch"}
    /\ nonblock = {"pty", "sub", "sigchld", "sigwinch"}
    /\ fds = SourceOrder
    /\ registered = Src
    /\ interest = ReadOnly
    /\ armed = {"sigchld", "sigwinch"}
    /\ deregs = [s \in Src |-> 0]
    /\ events = <<"pty">>
    /\ evflags = [s \in Src |-> IF s = "pty" THEN {"r"} ELSE {}]
    /\ data = <<>>
    /\ dataCode = "none"
    /\ drainEnd = "none"
    /\ result = "none"
    /\ waitpidCalls = 0
    /\ wstatus = NoStatus
    /\ diag = NoDiag
    /\ ret = "none"
    /\ exitCode = -1
    /\ stdout = <<>>
    /\ cpc = "running"
    /\ copen = {}
    /\ hasCtty = TRUE
    /\ cdup = 3
    /\ cstatus = NoStatus
    /\ cwrote \in DrainInputs
    /\ cerr = "none"
    /\ ptybuf = cwrote
    /\ winch = 0
    /\ stops = 0
    /\ osFault = FALSE
    /\ termWinsz \in Geoms
    /\ currentSize = termWinsz
    /\ ptyWinsz = termWinsz
    /\ given = SourceOrder
    /\ setup = ReadOnly
    /\ conv = NoConv
    /\ ptyRead = <<>>

DrainNext == ReadUntilBlockData \/ ReadUntilBlockWouldBlock

DrainSpec == DrainInit /\ [][DrainNext]_vars

\* ------------------------------------------------------------------------
\* The Poller on its own: with_sources is handed any list of distinct
\* sources, the empty one included, and each_with runs over it with the
\* handler of parent_loop while a target writes and exits.

SourceLists == UNION {Perms(S) : S \in SUBSET Src}

\* PollInterest { file, read, write } with read interest, with or without
\* write interest (poller.rs:22-27).
SetupChoices == [Src -> {{"r"}, {"r", "w"}}]

PollerInit ==
    /\ ppc = "poller_new"
    /\ sigmask = {"SIGCHLD", "SIGWINCH"}
    /\ sigpending = {}
    /\ chldCode = "none"
    /\ popen = {"pty", "sub", "sigchld", "sigwinch"}
    /\ nonblock = {"pty", "sub", "sigchld", "sigwinch"}
    /\ fds = <<>>
    /\ registered = {}
    /\ interest = NoInterest
    /\ armed = {}
    /\ deregs = [s \in Src |-> 0]
    /\ events = <<>>
    /\ evflags = NoInterest
    /\ data = <<>>
    /\ dataCode = "none"
    /\ drainEnd = "none"
    /\ result = "none"
    /\ waitpidCalls = 0
    /\ wstatus = NoStatus
    /\ diag = NoDiag
    /\ ret = "none"
    /\ exitCode = -1
    /\ stdout = <<>>
    /\ cpc = "running"
    /\ copen = {}
    /\ hasCtty = TRUE
    /\ cdup = 3
    /\ cstatus = NoStatus
    /\ cwrote = <<>>
    /\ cerr = "none"
    /\ ptybuf = <<>>
    /\ winch = 0
    /\ stops = 0
    /\ osFault = FALSE
    /\ termWinsz = StartGeom
    /\ currentSize = termWinsz
    /\ ptyWinsz = termWinsz
    /\ given \in SourceLists
    /\ setup \in SetupChoices
    /\ conv = NoConv
    /\ ptyRead = <<>>

PollerNext ==
    \/ PollerNewOk
    \/ PollerNewErr
    \/ WithSourcesAddOk
    \/ WithSourcesAddPanic
    \/ EachWithWaitOk
    \/ EachWithWaitPanic
    \/ ReadUntilBlockData
    \/ ReadUntilBlockWouldBlock
    \/ ReadUntilBlockZero
    \/ ReadUntilBlockErr
    \/ EachWithHandleContinue
    \/ EachWithHandlePanic
    \/ EachWithHandleBreak
    \/ EachWithRearmOk
    \/ EachWithRearmErr
    \/ TargetWrite
    \/ TargetExit
    \/ RaiseWinch

PollerSpec == PollerInit /\ [][PollerNext]_vars

\* ------------------------------------------------------------------------
\* Properties.

\* C1: whenever control has left parent_process, by return or by panic, the
\* blocking waitpid on the child has been performed exactly once.
C1_ReapedBeforeLeaving ==
    ppc \in LeftStates => waitpidCalls = 1

\* C2: when parent_loop failed with an error and the reap has completed,
\* parent_process returns that same error and the supervisor exits nonzero.
C2_LoopErrorSurvivesReap ==
    (ppc = "returned" /\ result \notin {"none", "Ok"} /\ wstatus # NoStatus)
        => (ret = result /\ exitCode # 0)

\* C2 witness: the loop failed on a read, the child was reaped with exit
\* code 0, and parent_process has returned.
C2_Witness ==
    /\ ppc = "returned"
    /\ result = "ErrRead"
    /\ wstatus = Exited(0)

\* C3: once the child has terminated with exit code 0, the supervisor
\* eventually has left the loop, reaped the child and exited with code 0
\* without a diagnostic (unless one of its system calls failed).
C3_ExitZeroLeadsToCleanExit ==
    (cstatus = Exited(0))
        ~> ((ppc = "returned" /\ exitCode = 0 /\ diag = NoDiag) \/ osFault)

\* C4: when the supervisor exits after a child that exited with code 0,
\* every byte the child wrote to the subordinate pty is on standard output.
C4_AllChildOutputRelayed ==
    (ppc = "returned" /\ result = "Ok" /\ wstatus = Exited(0)) => stdout = cwrote

\* C5: each_with leaves the loop on a handler stop only when the event just
\* handled was the last of its batch, so no ready source of the batch is
\* left undrained.
C5_BatchFinishedOnStop ==
    [][(ppc = "handle" /\ result' = "Ok" /\ result = "none") => Len(events) = 1]_vars

\* C6: once each_with has returned, by stop or by a propagated error, every
\* one of the sources of the Poller has been deregistered exactly once.
C6_EverySourceDeregisteredOnce ==
    result \in {"Ok", "ErrRead", "ErrRearm"} => \A s \in Src : deregs[s] = 1

\* C7: the step in which with_sources surfaces a failed registration leaves
\* no source registered, and deregisters each source registered before it
\* exactly once.
C7_FailedSetupDeregisters ==
    [][(ppc = "add" /\ ppc' = "panic_add") =>
        /\ registered' = {}
        /\ \A s \in Src : deregs'[s] = IF s \in registered THEN 1 ELSE 0]_vars

\* C7 witness: the registration of the third source failed after two
\* sources had been registered.
C7_Witness ==
    /\ ppc = "panic_add"
    /\ deregs["sigchld"] = 1
    /\ deregs["sigwinch"] = 1
    /\ deregs["pty"] = 0

\* C8: once the loop has exited on a child-status event, the blocking reap
\* eventually returns.
C8_ReapReturns ==
    (ppc = "waitpid" /\ result = "Ok") ~> (ppc # "waitpid")

\* C9: when the loop and the reap both succeeded the supervisor exits 0,
\* whatever the child's status; a nonzero exit code of the child only shows
\* in the diagnostic, which carries the code.
C9_ExitCodeIgnoresChildStatus ==
    (ppc = "returned" /\ result = "Ok" /\ wstatus # NoStatus)
        => /\ exitCode = 0
           /\ (wstatus.kind = "Exited" /\ wstatus.code # 0)
                 => (diag.kind = "nonzero_exit" /\ diag.code = wstatus.code)
           /\ (wstatus.kind = "Exited" /\ wstatus.code = 0) => diag = NoDiag

\* C9 witness: the loop stopped cleanly, the child was reaped with exit
\* code 7, and the supervisor has exited.
C9_Witness ==
    /\ ppc = "returned"
    /\ result = "Ok"
    /\ wstatus = Exited(7)

\* The class the diagnostic of a status belongs to, as the classification is
\* described: silent, code, killed, stopped, or internal bug.
DiagClass(st) ==
    CASE st.kind = "Exited" /\ st.code = 0 -> "none"
      [] st.kind = "Exited" /\ st.code # 0 -> "nonzero_exit"
      [] st.kind = "Signaled" -> "killed"
      [] st.kind = "Stopped" -> "stopped"
      [] OTHER -> "unknown"

\* C10: the diagnostic printed is of the class of the reaped status, with the
\* signal's name and number for the two signal classes, and a child whose
\* stop by a signal ended the loop is reported in the stopped-by-signal class.
C10_StatusClassified ==
    (ppc = "returned" /\ wstatus # NoStatus)
        => /\ diag.kind = DiagClass(wstatus)
           /\ diag.kind \in {"killed", "stopped"}
                 => (diag.name = wstatus.sig /\ diag.number = SigNum(wstatus.sig))
           /\ (result = "Ok" /\ dataCode = "CLD_STOPPED") => diag.kind = "stopped"

\* a is a prefix of b.
IsPrefix(a, b) == Len(a) <= Len(b) /\ a = Take(b, Len(a))

\* C11: standard output is at every point a prefix of the bytes read so far
\* from the controller pty, in their order, and holds nothing drained from a
\* signal source.
C11_StdoutPrefixOfPtyRead ==
    /\ IsPrefix(stdout, ptyRead)
    /\ \A i \in 1..Len(stdout) : stdout[i] \in Bytes /\ <<stdout[i]>> # SiginfoData

\* C11 witness: a window-size event has been handled after bytes of the pty
\* were written to standard output.
C11_Witness ==
    /\ ppc = "rearm"
    /\ Head(events) = "sigwinch"
    /\ Len(stdout) = 2

\* C12: the drain of a source that holds a given byte sequence ends with
\* that sequence, whatever the sizes of the chunks its reads returned, and
\* its payload is at every point the concatenation of the chunks read.
C12_DrainIndependentOfChunks ==
    /\ data = ptyRead
    /\ ppc = "handle" => data = cwrote

\* C12 witness: a drain of the longest input has ended.
C12_Witness ==
    /\ ppc = "handle"
    /\ Len(data) = MaxDrainLen

\* C13: a Poller built over zero sources never enters the unbounded
\* readiness wait: with_sources rejects the empty list, or each_with returns
\* or aborts before waiting.
C13_EmptyPollerNeverWaits ==
    given = <<>> => ppc # "wait"

\* The sources that are signal event handles.
SignalSources == {"sigchld", "sigwinch"}

\* C14: an event handle for a signal exists, or is being requested, only
\* while that signal is blocked; the step that creates the handle starts
\* with the signal already blocked; and a failed blocking step creates no
\* handle.
C14_BlockedBeforeSignalfd ==
    [][/\ \A src \in SignalSources :
            /\ (src \in popen' \/ ppc' = PcSignalfd(src)) => SigOf(src) \in sigmask'
            /\ (src \in popen' /\ src \notin popen) => SigOf(src) \in sigmask
            /\ (ppc = PcBlock(src) /\ SigOf(src) \notin sigmask')
                  => (src \notin popen' /\ ppc' # PcSignalfd(src))
      ]_vars

\* C14 witness: the handle for SIGWINCH has just been created, SIGWINCH being
\* blocked.
C14_Witness ==
    /\ ppc = "poller_new"
    /\ "sigwinch" \in popen
    /\ "SIGWINCH" \in sigmask

\* A step in which the state of the child changes in a way that sends
\* SIGCHLD to the supervisor: it terminates, stops or is continued.
ChldRaised ==
    /\ cpc' # cpc
    /\ cpc' \in {"zombie", "stopped"} \/ (cpc = "stopped" /\ cpc' = "running")

\* C15: no step removes a signal from the supervisor's mask, whatever fails;
\* and a SIGCHLD or SIGWINCH raised while its event handle exists is left
\* pending, which makes the handle readable, instead of being delivered.
C15_MaskOnlyGrows ==
    [][/\ sigmask \subseteq sigmask'
       /\ ("sigchld" \in popen' /\ ChldRaised) => Readable("sigchld")'
       /\ ("sigwinch" \in popen' /\ winch' > winch) => Readable("sigwinch")'
      ]_vars

\* C15 witness: the loop has failed on a read and both signals are still
\* blocked, a SIGWINCH raised after its conversion being pending.
C15_Witness ==
    /\ ppc = "waitpid"
    /\ result = "ErrRead"
    /\ sigmask = {"SIGCHLD", "SIGWINCH"}
    /\ "SIGWINCH" \in sigpending

\* The positions of the supervisor from its second step after the fork on,
\* while it runs.
ParentSettled ==
    ParentAlive /\ ppc \notin {"getwinsz", "setwinsz", "fork", "block_sigchld"}

\* C16: after the fork the child holds no controller handle once it has made
\* its first step, and the supervisor holds no subordinate handle once it
\* has made its first step.
C16_HandlesPartitioned ==
    /\ cpc \notin {"unborn", "drop_pty"} => "pty" \notin copen
    /\ ParentSettled => "sub" \notin popen

\* The positions of the child before the image of the target replaces it.
LaunchStates == {"drop_pty", "setsid", "csctty", "dup2", "drop_sub", "exec"}

\* The position that follows a launch position when its step succeeds.
StepAfter(pc) ==
    CASE pc = "drop_pty" -> "setsid"
      [] pc = "setsid" -> "csctty"
      [] pc = "csctty" -> "dup2"
      [] pc = "dup2" -> "drop_sub"
      [] pc = "drop_sub" -> "exec"
      [] pc = "exec" -> "running"

\* C17: the child goes through new session, controlling terminal, the three
\* stream bindings, release of the subordinate handle and exec in that
\* order, each only after the earlier ones succeeded; exec is reached only
\* with all three streams bound; and a csctty that fails with
\* PermissionDenied ends the child with no stream bound and no exec.
C17_ChildLaunchOrder ==
    [][/\ (cpc \in LaunchStates /\ cpc' # cpc) => cpc' \in {StepAfter(cpc), "zombie"}
       /\ cpc' \in {"dup2", "drop_sub", "exec"} => hasCtty'
       /\ cdup' > 0 => hasCtty'
       /\ cpc' \in {"drop_sub", "exec"} => cdup' = 3
       /\ (cpc = "exec" /\ cpc' = "running")
             => (hasCtty /\ cdup = 3 /\ "sub" \notin copen)
       /\ cerr' = "PermissionDenied"
             => (cpc' \in {"zombie", "reaped"} /\ ~hasCtty' /\ cdup' = 0)
      ]_vars

\* C17 witness: csctty has failed with PermissionDenied and the child has
\* ended.
C17_Witness ==
    /\ cerr = "PermissionDenied"
    /\ cpc = "zombie"

\* C18: a child that ends before the image of the target has replaced it
\* ends with a nonzero or abnormal status, child_process having returned an
\* error or panicked, and a child whose child_process returned never runs
\* the target nor any further step.
C18_ChildArmNeverSucceeds ==
    [][/\ (cpc \in LaunchStates /\ cpc' = "zombie")
             => /\ cstatus' # Exited(0)
                /\ cstatus'.kind = "Exited" => cerr' # "none"
       /\ cerr # "none" => (cpc \in {"zombie", "reaped"} /\ cerr' = cerr)
      ]_vars

\* C18 witness: exec has failed, and the supervisor has reaped the child
\* with exit code 1.
C18_Witness ==
    /\ cerr = "exec"
    /\ wstatus = Exited(1)

\* C19: the geometry of the controller pty changes in one step only, the
\* setwinsz of main before the fork, which gives it the geometry getwinsz
\* read from the invoking terminal; and the step that handles a window-size
\* event leaves the geometry, standard output and the registered sources as
\* they were and goes on to re-arm the source.
C19_GeometrySetOnce ==
    [][/\ currentSize' # currentSize => (ppc = "getwinsz" /\ currentSize' = termWinsz)
       /\ ptyWinsz' # ptyWinsz
             => /\ ppc = "setwinsz" /\ cpc = "unborn"
                /\ ptyWinsz = "unset" /\ ptyWinsz' = currentSize
       /\ cpc' # "unborn" => (ptyWinsz' \in Geoms /\ ptyWinsz' = currentSize')
       /\ (ppc = "handle" /\ Head(events) = "sigwinch" /\ ppc' # ppc)
             => /\ ppc' = "rearm"
                /\ UNCHANGED <<ptyWinsz, stdout, registered>>
      ]_vars

\* C19 witness: the terminal has been resized, the window-size event has
\* been handled, and the pty still has the geometry of startup.
C19_Witness ==
    /\ ppc = "rearm"
    /\ Head(events) = "sigwinch"
    /\ ptyWinsz \in Geoms
    /\ termWinsz # ptyWinsz

\* C20: as long as the supervisor runs and waitpid has not returned a
\* status, the controller pty handle is open in the supervisor.
C20_ControllerOpenUntilReaped ==
    (ParentAlive /\ wstatus = NoStatus) => "pty" \in popen

\* C21: a zero-byte read ends the drain with the bytes collected so far and
\* no error; the handler is then invoked with those bytes, the source stays
\* registered and is re-armed, and the loop goes on with the batch or waits
\* again.
C21_ZeroReadEndsDrainOnly ==
    [][/\ (ppc = "read" /\ drainEnd' = "zero")
             => /\ ppc' = "handle" /\ result' = "none"
                /\ UNCHANGED <<data, events, registered>>
       /\ (ppc = "handle" /\ drainEnd = "zero" /\ ppc' # ppc /\ ~osFault')
             => /\ ppc' = "rearm"
                /\ stdout' = stdout \o data
                /\ UNCHANGED <<events, registered>>
       /\ (ppc = "rearm" /\ drainEnd = "zero" /\ ppc' # ppc /\ ~osFault')
             => /\ Head(events) \in armed' \cap registered'
                /\ ppc' \in {"wait", "read"}
                /\ result' = "none"
      ]_vars

\* C21 witness: a zero-byte read has ended a drain of two bytes, the handler
\* has been invoked with them, and the pty is about to be re-armed.
C21_Witness ==
    /\ ppc = "rearm"
    /\ drainEnd = "zero"
    /\ Len(data) = 2

\* C22: while the loop has not ended, every byte the target has written to
\* the subordinate side is eventually handed to the handler and written to
\* standard output, whenever it arrived, the moment between the last read of
\* a drain and the re-arm included.
C22_NoLostWakeup ==
    \A n \in 1..(MaxChildBytes + 1) :
        (Len(cwrote) >= n) ~> (Len(stdout) >= n \/ result # "none" \/ ~ParentAlive)

\* C22 witness: a byte has arrived after the read that ended the drain of
\* the pty with would-block and before the re-arm.
C22_Witness ==
    /\ ppc = "rearm"
    /\ Head(events) = "pty"
    /\ drainEnd = "wouldblock"
    /\ ptybuf # <<>>

\* C23: the interest registered for a source is at every point the interest
\* it was given at setup.
C23_InterestAsSetup ==
    \A s \in registered : interest[s] = setup[s]

\* C24: parent_loop comes to return success only from the dispatch of a
\* child-status event; the dispatch of a pty or window-size event goes on to
\* the re-arm with the loop still running (or panics on a failed stdout
\* write); and the wait has no timeout, it ends only with events or a panic.
C24_SuccessOnlyOnChildStatus ==
    [][ /\ (result = "none" /\ result' = "Ok")
            => (ppc = "handle" /\ Head(events) = "sigchld")
        /\ (ppc = "handle" /\ Head(events) \in {"pty", "sigwinch"} /\ ppc' # ppc)
            => (ppc' \in {"rearm", "panic_stdout"} /\ result' = "none")
        /\ (ppc = "wait" /\ ppc' # ppc)
            => (ppc' \in {"read", "panic_wait"} /\ result' = "none")
      ]_vars

\* C24 witness: the loop has returned success after pty output was
\* dispatched and written.
C24_Witness ==
    /\ result = "Ok"
    /\ ppc = "waitpid"
    /\ stdout # <<>>

\* A signalfd call that is handed the descriptor of the first signal handle
\* instead of -1: both signals end up on one descriptor.
RawFdOf_Shared(src) ==
    CASE src = "pty" -> 3
      [] src = "sigchld" -> 5
      [] src = "sigwinch" -> 5

\* The descriptor behind each source of the supervisor.  A new handle gets the
\* lowest free descriptor: 0..2 are the standard streams, openpt gets 3, the
\* subordinate side 4 (main.rs:127, 138-144), and each signalfd call with
\* NEW_FD = -1 a descriptor of its own (parent.rs:55-61, 71-77).
RawFdOf(src) ==
    CASE src = "pty" -> 3
      [] src = "sigchld" -> 5
      [] src = "sigwinch" -> 6

\* poller.rs:104-106: the key a source is registered with is its descriptor,
\* and an event carries the key of its source.
EventKey(src) == RawFdOf(src)

\* poller.rs:147-151: the positions of self.sources whose descriptor equals
\* the key of the event.
MatchingFiles(ev) == {i \in 1..Len(fds) : RawFdOf(fds[i]) = EventKey(ev)}

\* parent.rs:66, 72, 77 and 93-100: the branches of the handler whose key
\* equals the key of the event.
HandlerBranches(ev) == {b \in Src : EventKey(b) = EventKey(ev)}

C26_ReadErrorEndsLoop ==
    [][ /\ (result = "none" /\ result' = "ErrRead")
            => /\ ppc = "read"
               /\ ppc' = "waitpid"
               /\ events' = <<>>
               /\ UNCHANGED <<stdout, ptyRead, data>>
        /\ result = "ErrRead"
            => (result' = "ErrRead" /\ UNCHANGED <<stdout, ptyRead>>)
      ]_vars

\* C26 witness: a read failed after an earlier read of the same drain had
\* returned a byte, and that byte has not reached stdout.
C26_Witness ==
    /\ result = "ErrRead"
    /\ data # <<>>
    /\ Len(ptyRead) > Len(stdout)

\* The positions of main after set_nonblocking at which the controller pty is
\* used or about to be used (main.rs:131-157).
AfterSetNonblocking == {"unlockpt", "ptsname", "open_sub", "getwinsz", "setwinsz", "fork"}

\* C27: the controller pty is in nonblocking mode at every position of main
\* after set_nonblocking, whenever it is registered with the poller and
\* whenever it is read; both signal handles are in nonblocking mode from
\* their creation; so every read of the supervisor is made on a handle in
\* nonblocking mode and cannot suspend it.
C27_NonblockingBeforeUse ==
    /\ ppc \in AfterSetNonblocking => "pty" \in nonblock
    /\ registered \subseteq nonblock
    /\ \A s \in SignalSources : s \in popen => s \in nonblock
    /\ ppc = "read" => Head(events) \in nonblock

\* C27 witness: a read of the controller pty has reported would-block after
\* the pty went through the whole of main.
C27_Witness ==
    /\ ppc = "handle"
    /\ Head(events) = "pty"
    /\ drainEnd = "wouldblock"
    /\ ptyWinsz # "unset"

\* C28: from_errno of each of the five enumerations yields a variant of that
\* enumeration exactly for the codes its match lists, and panics for every
\* other code; it never yields anything else.
C28_EnumerationsClosed ==
    conv.val # "unset"
        => /\ conv.val \in Variants(conv.type) \cup {"panic"}
           /\ conv.val \in Variants(conv.type) <=> conv.raw \in ListedCodes(conv.type)
           /\ conv.raw \notin ListedCodes(conv.type) => conv.val = "panic"

\* C28 witness: SignalfdError::from_errno was applied to a code outside its
\* list and has panicked.
C28_Witness ==
    /\ conv.type = "Signalfd"
    /\ conv.raw = "ENOTTY"
    /\ conv.val = "panic"

\* C29: the code to_errno rebuilds from the variant from_errno gave is the
\* code from_errno was given, and as_errno gives the same code as to_errno.
C29_ErrnoRoundTrip ==
    /\ conv.back # "unset" => conv.back = conv.raw
    /\ (conv.back # "unset" /\ conv.ref # "unset") => conv.ref = conv.back

============================================================================
